---- MODULE Spec2Model ----
(***************************************************************************)
(* A model of the MA5-support backtest engine (core/backtest_runner_MA5.py)*)
(* and of its aggregation helpers.                                         *)
(*                                                                         *)
(* Units.  Prices and moving averages are integers in hundredths (100.00   *)
(* is 10000); percentages (등락률, return_pct, max_drawdown) are integers   *)
(* in hundredths of a percent (10 % is 1000); traded value (거래대금) is in  *)
(* units of 10^8 KRW.  Every comparison of a ratio with a threshold is     *)
(* cross-multiplied (all divisors are positive prices), and round(x, 2) is *)
(* rounding of the exact quotient to the nearest hundredth, ties to even.  *)
(***************************************************************************)
EXTENDS Integers, Sequences, FiniteSets, TLC

VARIABLES
    jobs,                  \* the passes main() runs: <<[code, df, manual]>>
    params,                \* the six threshold arguments as main() passes them
    pc,                    \* per pass: "ready" | "scan" | "done" | "raised"
    idx,                   \* per pass: the loop variable of `for idx, row`
    waiting_for_ma20_dip,  \* per pass: the re-arm gate
    last_exit_idx,         \* per pass: assigned after a trade, never read
    results,               \* per pass: the local list of trade records
    all_results,           \* main(): the accumulating output collection
    columns,               \* main(): df_all.columns, the columns of the input
    main_pc,               \* main(): "check" | "run" | "fatal" | "crashed" |
                           \*   "no_trades" | "collected"
    removed,               \* main(): the logged count before - after
    df_results,            \* the trade-record table the analytics read
    apc,                   \* the analytics' position: "idle" | "held" |
                           \*   "held_done" | "summary_done" | "win" |
                           \*   "loss" | "streak_done" | "period_done"
    row_i,                 \* the analytics' loop position
    held_counts,           \* the held-count Series over all_dates
    max_held_stocks,       \* held_counts.max()
    summary,               \* the summary sheets: the rows of the daily summary,
                           \*   or the monthly and weekly summaries
    win_streak, max_win,   \* calculate_max_streaks: first loop
    loss_streak, max_loss  \* calculate_max_streaks: second loop

passVars == <<jobs, params, pc, idx, waiting_for_ma20_dip, last_exit_idx,
              results, all_results>>
aggVars == <<summary, df_results, apc, row_i, held_counts, max_held_stocks,
             win_streak, max_win, loss_streak, max_loss>>
tableVars == <<columns, main_pc, removed>>
vars == <<passVars, aggVars, tableVars>>

----------------------------------------------------------------------------
(* Bounds of the model *)

NBars == 5
NSyms == 2
NManualRows == 3
MaxBefore == 23
HeldMaxDay == 4
HeldMaxTrades == 3
StreakMaxDay == 3
StreakMaxTrades == 3

----------------------------------------------------------------------------
(* Program constants *)

TRIGGER_RATE == 1000
TRIGGER_VOLUME == 100
TRIGGER_FOREIGN == 0
TRIGGER_INSTITUTION == 0

----------------------------------------------------------------------------
(* Arithmetic helpers *)

Min(a, b) == IF a < b THEN a ELSE b
Max(a, b) == IF a > b THEN a ELSE b

MinOf(S) == CHOOSE x \in S : \A y \in S : x <= y
MaxOf(S) == CHOOSE x \in S : \A y \in S : x >= y

RECURSIVE SortedSeq(_)
SortedSeq(S) ==
    IF S = {} THEN <<>>
    ELSE <<MinOf(S)>> \o SortedSeq(S \ {MinOf(S)})

RECURSIVE SumField(_, _, _)
SumField(rows, k, f) ==
    IF k > Len(rows) THEN 0 ELSE rows[k][f] + SumField(rows, k + 1, f)

\* round(p / q, 0) for q > 0 on the exact quotient, ties to even.
RoundDiv(p, q) ==
    LET f == p \div q
        r == p % q
    IN  IF 2 * r < q THEN f
        ELSE IF 2 * r > q THEN f + 1
        ELSE IF f % 2 = 0 THEN f ELSE f + 1

calculate_target_priceTruncated(entry_price, ma5, ma10) ==
    (entry_price * ma5) \div ma10

\* round(entry_price * (1 + (ma5 - ma10) / ma10), 2)
calculate_target_price(entry_price, ma5, ma10) ==
    RoundDiv(entry_price * ma10 + entry_price * (ma5 - ma10), ma10)

\* round((exit_price - entry_price) / entry_price * 100, 2)
calculate_return(entry_price, exit_price) ==
    RoundDiv((exit_price - entry_price) * 10000, entry_price)

is_valid_entry(row) == row.ma5 > row.ma10 /\ row.ma10 > row.ma20

----------------------------------------------------------------------------
(* The input table: daily bars *)

\* A trigger bar whose low dips under its MA5 (as an entry: entry at MA5 =
\* 100.00, target 104.17, reached the same day; as an exit bar: target only).
BarT  == [open |-> 10200, high |-> 11000, low |-> 9900, close |-> 10600,
          value |-> 200, pct |-> 1500, ma5 |-> 10000, ma10 |-> 9600,
          ma20 |-> 9000, foreign |-> 5, inst |-> 5]
\* A gap-down under MA5 (entry at the open 100.00, spread 5 %, target 105.00).
BarE  == [open |-> 10000, high |-> 10400, low |-> 9800, close |-> 10000,
          value |-> 50, pct |-> -500, ma5 |-> 10080, ma10 |-> 9600,
          ma20 |-> 9000, foreign |-> 0, inst |-> 0]
\* A flat day overlapping MA5 and MA10 (entry at MA5 = 103.50, target 106.80,
\* target and MA10 both hit the same day).
BarO  == [open |-> 10400, high |-> 10700, low |-> 10000, close |-> 10420,
          value |-> 50, pct |-> 0, ma5 |-> 10350, ma10 |-> 10030,
          ma20 |-> 9500, foreign |-> 0, inst |-> 0]
\* A day that breaches MA10 = 102.00 and closes under MA20 (as an entry:
\* entry at the open 103.00, MA10 hit the same day).
BarL  == [open |-> 10300, high |-> 10450, low |-> 10050, close |-> 10100,
          value |-> 50, pct |-> -300, ma5 |-> 10510, ma10 |-> 10200,
          ma20 |-> 10150, foreign |-> 0, inst |-> 0]
\* A trigger bar that opens under MA10 and closes under MA20.
BarTD == [open |-> 10300, high |-> 10450, low |-> 10200, close |-> 10400,
          value |-> 200, pct |-> 1500, ma5 |-> 9900, ma10 |-> 10350,
          ma20 |-> 10700, foreign |-> 5, inst |-> 5]

BarKinds == {BarT, BarE, BarO, BarL, BarTD}

\* The calendar date (a day number) of the i-th trading day, i >= 0: three
\* trading days, then a two-day gap.
DateOf(i) == i + 1 + 2 * (i \div 3)

\* df.sort_values('일자').reset_index(drop=True): rows in date order, dates
\* strictly increasing.  Row(d, i) is df.loc[i] (0-based).
MakeDf(kinds) == [i \in 1..Len(kinds) |-> [date |-> DateOf(i - 1)] @@ kinds[i]]
Row(d, i) == d[i + 1]

AllSeries(n) == {MakeDf(k) : k \in [1..n -> BarKinds]}

----------------------------------------------------------------------------
(* Threshold arguments: a number, "" (disabled in the GUI) or None (the    *)
(* argparse default of max_rate and max_volume).                           *)

Num(v)  == [k |-> "num", v |-> v]
Empty   == [k |-> "empty", v |-> 0]
NoneArg == [k |-> "none", v |-> 0]

ParamNames == {"min_rate", "max_rate", "min_volume", "max_volume",
               "min_foreign", "min_institution"}

\* The GUI's default fields (max boxes empty).
GuiDefaults ==
    [min_rate |-> Num(TRIGGER_RATE), max_rate |-> Empty,
     min_volume |-> Num(TRIGGER_VOLUME), max_volume |-> Empty,
     min_foreign |-> Num(TRIGGER_FOREIGN),
     min_institution |-> Num(TRIGGER_INSTITUTION)]
\* The command line's defaults.
CliDefaults ==
    [min_rate |-> Num(TRIGGER_RATE), max_rate |-> NoneArg,
     min_volume |-> Num(TRIGGER_VOLUME), max_volume |-> NoneArg,
     min_foreign |-> Num(TRIGGER_FOREIGN),
     min_institution |-> Num(TRIGGER_INSTITUTION)]

ParamChoices == {GuiDefaults, CliDefaults}

\* float(x) / int(x) raise on None; the except clause returns [].
ConversionFails(p) == \E n \in ParamNames : p[n].k = "none"
\* x = float(x) if x != "" else None
Converted(p) == [n \in ParamNames |->
                    IF p[n].k = "empty" THEN [on |-> FALSE, v |-> 0]
                    ELSE [on |-> TRUE, v |-> p[n].v]]

----------------------------------------------------------------------------
(* Trigger Scanner *)

ThresholdsPass(thr, row) ==
    /\ (~thr.min_rate.on \/ row.pct > thr.min_rate.v)
    /\ (~thr.max_rate.on \/ row.pct < thr.max_rate.v)
    /\ (~thr.min_volume.on \/ row.value > thr.min_volume.v)
    /\ (~thr.max_volume.on \/ row.value < thr.max_volume.v)
    /\ (~thr.min_foreign.on \/ row.foreign > thr.min_foreign.v)
    /\ (~thr.min_institution.on \/ row.inst > thr.min_institution.v)

\* The loop over past_20 = df.loc[max(0, idx - 20): idx - 1, '등락률'].
RECURSIVE FlatScan(_, _, _, _)
FlatScan(d, i, last, consecutive_flats) ==
    IF i > last THEN FALSE
    ELSE IF Row(d, i).pct = 0
         THEN IF consecutive_flats + 1 >= 3 THEN TRUE
              ELSE FlatScan(d, i + 1, last, consecutive_flats + 1)
         ELSE FlatScan(d, i + 1, last, 0)

\* The first row of past_20: max(0, idx - 20).
FlatWindowStartWider(i) == Max(0, i - 21)
FlatWindowStart(i) == Max(0, i - 20)

has_3_or_more_consecutive_zeros(d, i) ==
    FlatScan(d, FlatWindowStart(i), i - 1, 0)

\* The conditions of the `if` of lines 104-113 and the two MA rejects: a bar
\* that passes them reaches the gap test, which reads the open.
ReachesGapCheck(d, i, thr) ==
    LET row  == Row(d, i)
        prev == Row(d, i - 1)
    IN  /\ ThresholdsPass(thr, row)
        /\ prev.pct > -1000
        /\ 100 * row.close >= 105 * row.ma5
        /\ ~(100 * (row.ma20 - row.ma10) > 4 * row.ma10)
        /\ ~(100 * (row.ma10 - row.ma5) > 5 * row.ma5)

IsTrigger(d, i, thr) ==
    LET row  == Row(d, i)
        prev == Row(d, i - 1)
    IN  /\ ReachesGapCheck(d, i, thr)
        /\ ~(100 * (row.open - prev.close) < -10 * prev.close)
        /\ ~has_3_or_more_consecutive_zeros(d, i)

----------------------------------------------------------------------------
(* Entry Resolver *)

crossed_down_ma5(r) ==
    r.low < r.ma5 \/ r.high < r.ma5 \/ r.open < r.ma5 \/ r.close < r.ma5

EntryPriceAtLow(r) == r.low
EntryPrice(r) ==
    IF r.open < r.ma5 THEN r.open
    ELSE IF r.low <= r.ma5 /\ r.ma5 <= r.high THEN r.ma5
    ELSE r.open

NoEntry == [found |-> FALSE, entry_idx |-> -1, entry_price |-> 0]

\* range(idx + 1, len(df))
EntryStartAtTrigger(i) == i
EntryStart(i) == i + 1

\* if open_price < ma10: entry_price = None; break
GapBelowMa10Ignored(r) == FALSE
GapBelowMa10(r) == r.open < r.ma10

RECURSIVE EntrySearch(_, _)

\* entry_price = None; break: the first bar under its MA5 ends the search
\* when it is rejected.
AbandonContinues(d, forward_idx) == EntrySearch(d, forward_idx + 1)
Abandon(d, forward_idx) == NoEntry

EntrySearch(d, forward_idx) ==
    IF forward_idx >= Len(d) THEN NoEntry
    ELSE LET r == Row(d, forward_idx)
         IN  IF crossed_down_ma5(r)
             THEN IF GapBelowMa10(r) THEN Abandon(d, forward_idx)
                  ELSE IF 100 * (r.ma5 - r.ma10) < 3 * r.ma10
                       THEN Abandon(d, forward_idx)
                  ELSE IF ~is_valid_entry(r) THEN Abandon(d, forward_idx)
                  ELSE [found |-> TRUE, entry_idx |-> forward_idx,
                        entry_price |-> EntryPrice(r)]
             ELSE EntrySearch(d, forward_idx + 1)

----------------------------------------------------------------------------
(* Exit Resolver *)

hit_target(r, target_price) == r.high >= target_price
opened_below_ma10(r) == r.open < r.ma10
hit_ma10(r) == r.low <= r.ma10 \/ opened_below_ma10(r)

NoExit == [found |-> FALSE, exit_idx |-> -1, exit_price |-> 0,
           outcome |-> "none", note |-> "", dd |-> 0]

\* if hit_target and hit_ma10: the MA10 exit wins over the target.
BothHitExitTargetFirst(r, exit_idx, target_price, dd) ==
    [found |-> TRUE, exit_idx |-> exit_idx, exit_price |-> target_price,
     outcome |-> "win", note |-> "target hit first", dd |-> dd]
BothHitExit(r, exit_idx, target_price, dd) ==
    IF opened_below_ma10(r)
    THEN [found |-> TRUE, exit_idx |-> exit_idx, exit_price |-> r.open,
          outcome |-> "loss", note |-> "both hit, exited at open", dd |-> dd]
    ELSE [found |-> TRUE, exit_idx |-> exit_idx, exit_price |-> r.ma10,
          outcome |-> "loss", note |-> "both hit, exited at MA10", dd |-> dd]

\* if exit_idx == entry_idx and hit_target and not hit_ma10: continue
SameDayWinAllowed(exit_idx, entry_idx, ht, hm) == FALSE
SameDayWinSkipped(exit_idx, entry_idx, ht, hm) ==
    exit_idx = entry_idx /\ ht /\ ~hm

TargetExitAtClose(r, exit_idx, target_price, dd) ==
    [found |-> TRUE, exit_idx |-> exit_idx, exit_price |-> r.close,
     outcome |-> "win", note |-> "target hit first", dd |-> dd]
TargetExit(r, exit_idx, target_price, dd) ==
    [found |-> TRUE, exit_idx |-> exit_idx, exit_price |-> target_price,
     outcome |-> "win", note |-> "target hit first", dd |-> dd]

Ma10ExitAtMa10(r, exit_idx, dd) ==
    [found |-> TRUE, exit_idx |-> exit_idx, exit_price |-> r.ma10,
     outcome |-> "loss", note |-> "MA10 breach, exited at MA10", dd |-> dd]
Ma10Exit(r, exit_idx, dd) ==
    IF opened_below_ma10(r)
    THEN [found |-> TRUE, exit_idx |-> exit_idx, exit_price |-> r.open,
          outcome |-> "loss", note |-> "gap-down, exited at open", dd |-> dd]
    ELSE [found |-> TRUE, exit_idx |-> exit_idx, exit_price |-> r.ma10,
          outcome |-> "loss", note |-> "MA10 breach, exited at MA10", dd |-> dd]

\* for exit_idx in range(entry_idx, len(df)); dd is the running minimum of
\* min(0, low - entry_price), the numerator of max_drawdown.
\* drawdown = low - entry_price (over entry_price, x 100);
\* max_drawdown = min(max_drawdown, drawdown)
running_drawdownByClose(dd, r, entry_price) == Min(dd, r.close - entry_price)
running_drawdown(dd, r, entry_price) == Min(dd, r.low - entry_price)

RECURSIVE ExitScan(_, _, _, _, _, _)
ExitScan(d, exit_idx, entry_idx, entry_price, target_price, dd) ==
    IF exit_idx >= Len(d) THEN NoExit
    ELSE LET r   == Row(d, exit_idx)
             dd2 == running_drawdown(dd, r, entry_price)
             ht  == hit_target(r, target_price)
             hm  == hit_ma10(r)
         IN  IF ht /\ hm THEN BothHitExit(r, exit_idx, target_price, dd2)
             ELSE IF SameDayWinSkipped(exit_idx, entry_idx, ht, hm)
                  THEN ExitScan(d, exit_idx + 1, entry_idx, entry_price,
                                target_price, dd2)
             ELSE IF ht THEN TargetExit(r, exit_idx, target_price, dd2)
             ELSE IF hm THEN Ma10Exit(r, exit_idx, dd2)
             ELSE ExitScan(d, exit_idx + 1, entry_idx, entry_price,
                           target_price, dd2)

TargetOf(d, en) ==
    calculate_target_price(en.entry_price, Row(d, en.entry_idx).ma5,
                           Row(d, en.entry_idx).ma10)

ExitOf(d, en) ==
    ExitScan(d, en.entry_idx, en.entry_idx, en.entry_price, TargetOf(d, en), 0)

----------------------------------------------------------------------------
(* Trade Recorder: one iteration of `for idx, row in df.iterrows()` *)

\* if waiting_for_ma20_dip: if row['종가'] < row['MA_20'] the gate clears
AnyBarClearsGate(row) == TRUE
DipClearsGate(row) == row.close < row.ma20

\* if manual_trigger_date is not None and the row's date differs: continue
ManualSkipsNothing(row, manual) == FALSE
ManualSkips(row, manual) == manual # {} /\ row.date \notin manual

\* The gate block has no `continue` on the branch that clears the gate: the
\* bar that clears it goes on to the trigger test like a bar met with the
\* gate clear.
DipBarIsSkipped(gate) == ~gate
DipBarIsCandidate(gate) == TRUE

\* What iteration i does, given the gate at its start.
IterKind(d, thr, manual, i, gate) ==
    IF i = 0 THEN "first"
    ELSE IF ManualSkips(Row(d, i), manual) THEN "manual_skip"
    ELSE IF gate /\ ~DipClearsGate(Row(d, i)) THEN "waiting"
    ELSE IF ~DipBarIsCandidate(gate) \/ ~IsTrigger(d, i, thr)
         THEN "no_trigger"
    ELSE LET en == EntrySearch(d, EntryStart(i))
         IN  IF ~en.found \/ ~is_valid_entry(Row(d, en.entry_idx))
             THEN "no_entry"
             ELSE IF ~ExitOf(d, en).found THEN "no_exit"
             ELSE "trade"

\* The dict appended to results (the fields the analytics read).
TradeRecord(code, d, i, n) ==
    LET en == EntrySearch(d, EntryStart(i))
        ex == ExitOf(d, en)
        entry_row == Row(d, en.entry_idx)
        exit_row  == Row(d, ex.exit_idx)
    IN  [code          |-> code,
         trigger_date  |-> Row(d, i).date,
         entry_date    |-> entry_row.date,
         exit_date     |-> exit_row.date,
         entry_price   |-> en.entry_price,
         exit_price    |-> ex.exit_price,
         return_pct    |-> calculate_return(en.entry_price, ex.exit_price),
         days_held     |-> Cardinality({k \in 1..Len(d) :
                               d[k].date > entry_row.date
                               /\ d[k].date <= exit_row.date}),
         target_price  |-> TargetOf(d, en),
         outcome       |-> ex.outcome,
         note          |-> ex.note,
         max_drawdown  |-> RoundDiv(ex.dd * 10000, en.entry_price),
         entry_id      |-> n + 1]

----------------------------------------------------------------------------
(* main(): the passes and the accumulating collection *)

Job(code, d, manual) == [code |-> code, df |-> d, manual |-> manual]

Passes == 1..Len(jobs)
Df(j) == jobs[j].df
NextIdx(j) == idx[j] + 1
Scanning(j) == pc[j] = "scan" /\ NextIdx(j) < Len(Df(j))
KindOf(j) == IterKind(Df(j), Converted(params), jobs[j].manual, NextIdx(j),
                      waiting_for_ma20_dip[j])

\* waiting_for_ma20_dip = True, a local of the pass that emitted the trade
SetGateOfAllPasses(gate, j) == [k \in DOMAIN gate |-> TRUE]
SetGate(gate, j) == [gate EXCEPT ![j] = TRUE]

\* run_backtest is entered: the arguments convert, the locals are set.
Start(j) ==
    /\ pc[j] = "ready"
    /\ ~ConversionFails(params)
    /\ pc' = [pc EXCEPT ![j] = "scan"]
    /\ idx' = [idx EXCEPT ![j] = -1]
    /\ results' = [results EXCEPT ![j] = <<>>]
    /\ waiting_for_ma20_dip' = [waiting_for_ma20_dip EXCEPT ![j] = FALSE]
    /\ last_exit_idx' = [last_exit_idx EXCEPT ![j] = -1]
    /\ UNCHANGED <<jobs, params, all_results>>
    /\ UNCHANGED <<aggVars, tableVars>>

\* The conversion raises: run_backtest returns [] and main extends by it.
StartFail(j) ==
    /\ pc[j] = "ready"
    /\ ConversionFails(params)
    /\ pc' = [pc EXCEPT ![j] = "done"]
    /\ all_results' = all_results \o <<>>
    /\ UNCHANGED <<jobs, params, idx, results, waiting_for_ma20_dip,
                   last_exit_idx>>
    /\ UNCHANGED <<aggVars, tableVars>>

\* An iteration that ends in `continue` before the gate check.
Skip(j, kind) ==
    /\ Scanning(j)
    /\ KindOf(j) = kind
    /\ idx' = [idx EXCEPT ![j] = NextIdx(j)]
    /\ UNCHANGED <<jobs, params, pc, results, waiting_for_ma20_dip,
                   last_exit_idx, all_results>>
    /\ UNCHANGED <<aggVars, tableVars>>

SkipFirst(j) == Skip(j, "first")
SkipManual(j) == Skip(j, "manual_skip")
GateSkip(j) == Skip(j, "waiting")

\* The gate after an iteration that passed the gate check and ended in
\* `continue`: clear, as it was when the trigger test ran.
GateSetAfterNoTrade(gate, j) == [gate EXCEPT ![j] = TRUE]
GateAfterNoTrade(gate, j) == [gate EXCEPT ![j] = FALSE]

\* An iteration that passes the gate check (clearing the gate if it was
\* set) and ends in `continue` without a trade.
NoTrade(j, kind) ==
    /\ Scanning(j)
    /\ KindOf(j) = kind
    /\ idx' = [idx EXCEPT ![j] = NextIdx(j)]
    /\ waiting_for_ma20_dip' = GateAfterNoTrade(waiting_for_ma20_dip, j)
    /\ UNCHANGED <<jobs, params, pc, results, last_exit_idx, all_results>>
    /\ UNCHANGED <<aggVars, tableVars>>

NoTrigger(j) == NoTrade(j, "no_trigger")
NoEntryFound(j) == NoTrade(j, "no_entry")
NoExitFound(j) == NoTrade(j, "no_exit")

\* An iteration that appends a trade record and arms the gate.
EmitTrade(j) ==
    /\ Scanning(j)
    /\ KindOf(j) = "trade"
    /\ LET i  == NextIdx(j)
           en == EntrySearch(Df(j), EntryStart(i))
       IN  /\ results' = [results EXCEPT ![j] =
                   Append(@, TradeRecord(jobs[j].code, Df(j), i, Len(@)))]
           /\ last_exit_idx' = [last_exit_idx EXCEPT ![j] =
                   ExitOf(Df(j), en).exit_idx]
           /\ idx' = [idx EXCEPT ![j] = i]
    /\ waiting_for_ma20_dip' = SetGate(waiting_for_ma20_dip, j)
    /\ UNCHANGED <<jobs, params, pc, all_results>>
    /\ UNCHANGED <<aggVars, tableVars>>

\* The loop ends: return results; all_results.extend(results).
Finish(j) ==
    /\ pc[j] = "scan"
    /\ NextIdx(j) >= Len(Df(j))
    /\ pc' = [pc EXCEPT ![j] = "done"]
    /\ all_results' = all_results \o results[j]
    /\ UNCHANGED <<jobs, params, idx, results, waiting_for_ma20_dip,
                   last_exit_idx>>
    /\ UNCHANGED <<aggVars, tableVars>>

\* The columns run_backtest and main() read by subscript.
required_cols == {"date", "code", "name", "high", "low", "close", "value",
                  "pct", "ma5", "ma10", "ma20"}
AllColumns == required_cols \cup {"open", "ma60"}

\* The input has every column and the column check has passed.
TableOk ==
    /\ columns = AllColumns
    /\ main_pc = "run"
    /\ removed = 0

InitPasses ==
    /\ pc = [j \in Passes |-> "ready"]
    /\ idx = [j \in Passes |-> -1]
    /\ waiting_for_ma20_dip = [j \in Passes |-> FALSE]
    /\ last_exit_idx = [j \in Passes |-> -1]
    /\ results = [j \in Passes |-> <<>>]
    /\ all_results = <<>>

\* The analytics do not run.
AggIdle ==
    /\ df_results = <<>>
    /\ summary = <<>>
    /\ apc = "idle"
    /\ row_i = 0
    /\ held_counts = <<>>
    /\ max_held_stocks = 0
    /\ win_streak = 0 /\ max_win = 0
    /\ loss_streak = 0 /\ max_loss = 0

\* Normal mode, one symbol: every series of NBars bars.
Init ==
    /\ jobs \in {<<Job(1, d, {})>> : d \in AllSeries(NBars)}
    /\ params \in ParamChoices
    /\ InitPasses
    /\ TableOk
    /\ AggIdle

Next ==
    \/ \E j \in Passes : Start(j)
    \/ \E j \in Passes : StartFail(j)
    \/ \E j \in Passes : SkipFirst(j)
    \/ \E j \in Passes : GateSkip(j)
    \/ \E j \in Passes : NoTrigger(j)
    \/ \E j \in Passes : NoEntryFound(j)
    \/ \E j \in Passes : NoExitFound(j)
    \/ \E j \in Passes : EmitTrade(j)
    \/ \E j \in Passes : Finish(j)

Spec == Init /\ [][Next]_vars

----------------------------------------------------------------------------
(* Normal mode, several symbols: main() runs one pass per (code, name)      *)
(* group.  The passes are sequential in the code; here they may run in any *)
(* order and interleaved, each on its own locals.                          *)

SeriesPool ==
    {MakeDf(<<BarE, BarT, BarL, BarT, BarL>>),    \* two trades, a dip between
     MakeDf(<<BarE, BarT, BarT, BarTD, BarO>>),   \* two trades, a dip trigger
     MakeDf(<<BarO, BarT, BarE, BarTD, BarL>>),   \* two overlapping trades
     MakeDf(<<BarE, BarT, BarT, BarT, BarE>>),    \* a win, then no dip
     MakeDf(<<BarO, BarE, BarT, BarE, BarE>>),    \* an entry that never exits
     MakeDf(<<BarE, BarE, BarO, BarL, BarT>>)}    \* a trigger on the last bar

InitBatch ==
    /\ jobs \in {[k \in 1..NSyms |-> Job(k, f[k], {})] :
                    f \in [1..NSyms -> SeriesPool]}
    /\ params \in ParamChoices
    /\ InitPasses
    /\ TableOk
    /\ AggIdle

SpecBatch == InitBatch /\ [][Next]_vars

\* run_backtest as a function of its arguments: the fold of the loop body
\* over the rows in order, from the gate clear and no results.
RECURSIVE RunPass(_, _, _, _, _, _, _)
RunPass(code, d, thr, manual, i, gate, res) ==
    IF i >= Len(d) THEN res
    ELSE LET kind == IterKind(d, thr, manual, i, gate)
         IN  IF kind \in {"first", "manual_skip", "waiting"}
             THEN RunPass(code, d, thr, manual, i + 1, gate, res)
             ELSE IF kind = "trade"
             THEN RunPass(code, d, thr, manual, i + 1, TRUE,
                          Append(res, TradeRecord(code, d, i, Len(res))))
             ELSE RunPass(code, d, thr, manual, i + 1, FALSE, res)

run_backtest(job, p) ==
    IF ConversionFails(p) THEN <<>>
    ELSE RunPass(job.code, job.df, Converted(p), job.manual, 0, FALSE, <<>>)

----------------------------------------------------------------------------
(* Normal mode, one symbol, on series built around the limits of the       *)
(* trigger conditions, of the flat-day window and of the entry rules.      *)

\* The bar before the candidate, with a given percent change.
EdgePrev(pct) == [BarE EXCEPT !.pct = pct]
\* A candidate that passes the thresholds, with the fields the fixed
\* conditions read.
EdgeCand(close, ma10, ma20, open) ==
    [BarT EXCEPT !.close = close, !.ma10 = ma10, !.ma20 = ma20,
                 !.open = open, !.low = 8900]

\* Previous percent change around -10 %, close around MA5 x 1.05, MA20
\* around 4 % over MA10, MA10 around 5 % over MA5, open around 10 % under
\* the previous close; then a bar that gives an entry and an exit.
TriggerEdgeSeries ==
    {MakeDf(<<EdgePrev(p), EdgeCand(c, m[1], m[2], o), BarL>>) :
        p \in {-1001, -1000, -999, -500},
        c \in {10499, 10500, 10600},
        m \in {<<9600, 9000>>, <<9600, 9984>>, <<9600, 9985>>,
               <<10500, 9000>>, <<10501, 9000>>},
        o \in {10200, 9000, 8999}}

\* n bars with percent change 0 at the given distances before the
\* candidate (1 is the bar just before it) and -5 % elsewhere, then a
\* trigger bar and a bar that gives an entry and an exit.
FlatSeries(n, zeros) ==
    MakeDf([k \in 1..(n + 2) |->
               IF k = n + 1 THEN BarT
               ELSE IF k = n + 2 THEN BarL
               ELSE EdgePrev(IF (n + 1 - k) \in zeros THEN 0 ELSE -500)])
ZeroRuns ==
    {s..(s + l - 1) : s \in {1, 2, 18, 19, 20, 21}, l \in 0..3}
        \cup {{1, 3}, {1, 2, 4}, {1, 2, 4, 5}, {1, 2, 3, 4}}
FlatEdgeSeries ==
    {FlatSeries(n, z) : n \in {2, 3, 20, MaxBefore}, z \in ZeroRuns}

\* The bar after the trigger: not under its MA5; under it and opened below
\* MA10; spread under 3 %; spread of exactly 3 %; MA10 not above MA20; high
\* below open and MA5 (inconsistent data, the fallback price).
EntryEdgeBars ==
    {[BarE EXCEPT !.ma5 = 9700, !.ma10 = 9400],
     [BarE EXCEPT !.open = 9500, !.low = 9400],
     [BarE EXCEPT !.ma5 = 9880],
     [BarE EXCEPT !.ma5 = 9888],
     [BarE EXCEPT !.ma20 = 9700],
     [BarO EXCEPT !.high = 10300, !.close = 10200],
     BarE, BarT, BarO}
EntryEdgeSeries ==
    {MakeDf(<<BarE, BarT, x, BarO, BarL>>) : x \in EntryEdgeBars}

InitEdge ==
    /\ jobs \in {<<Job(1, d, {})>> :
                    d \in TriggerEdgeSeries \cup FlatEdgeSeries
                             \cup EntryEdgeSeries \cup SeriesPool}
    /\ params \in ParamChoices
    /\ InitPasses
    /\ TableOk
    /\ AggIdle

SpecEdge == InitEdge /\ [][Next]_vars

----------------------------------------------------------------------------
(* main() as a whole: the column check, the passes one after another in    *)
(* normal or manual mode, an exception leaving a pass, the collection.     *)

\* Whether iteration i reads a column the table lacks (a KeyError): the
\* open at the gap test, MA_60 once a valid entry is found.
IterRaises(d, thr, manual, i, gate, cols) ==
    /\ i # 0
    /\ ~ManualSkips(Row(d, i), manual)
    /\ ~(gate /\ ~DipClearsGate(Row(d, i)))
    /\ \/ "open" \notin cols /\ ReachesGapCheck(d, i, thr)
       \/ /\ "open" \in cols
          /\ "ma60" \notin cols
          /\ IterKind(d, thr, manual, i, gate) \in {"no_exit", "trade"}

Raises(j) ==
    IterRaises(Df(j), Converted(params), jobs[j].manual, NextIdx(j),
               waiting_for_ma20_dip[j], columns)

\* The passes run one after another, in the order of the groups or of the
\* manual list, while main() is in its loop.
Turn(j) ==
    /\ main_pc = "run"
    /\ \A k \in 1..(j - 1) : pc[k] = "done"

\* An iteration of pass j that runs to its end without an exception.
Runs(j) == Turn(j) /\ Scanning(j) /\ ~Raises(j)

\* raise ValueError(f"Missing required column: {col}")
CheckColumnsFatal ==
    /\ main_pc = "check"
    /\ ~(required_cols \subseteq columns)
    /\ main_pc' = "fatal"
    /\ UNCHANGED <<passVars, aggVars, columns, removed>>

CheckColumnsOk ==
    /\ main_pc = "check"
    /\ required_cols \subseteq columns
    /\ main_pc' = "run"
    /\ UNCHANGED <<passVars, aggVars, columns, removed>>

\* Manual mode: if stock_df.empty: print, continue
SkipNoData(j) ==
    /\ Turn(j)
    /\ pc[j] = "ready"
    /\ Df(j) = <<>>
    /\ pc' = [pc EXCEPT ![j] = "done"]
    /\ UNCHANGED <<jobs, params, idx, results, waiting_for_ma20_dip,
                   last_exit_idx, all_results>>
    /\ UNCHANGED <<aggVars, tableVars>>

\* A KeyError leaves run_backtest; main() has no handler around the call,
\* so it leaves main() as well.
Raise(j) ==
    /\ Turn(j)
    /\ Scanning(j)
    /\ Raises(j)
    /\ pc' = [pc EXCEPT ![j] = "raised"]
    /\ idx' = [idx EXCEPT ![j] = NextIdx(j)]
    /\ main_pc' = "crashed"
    /\ UNCHANGED <<jobs, params, results, waiting_for_ma20_dip,
                   last_exit_idx, all_results>>
    /\ UNCHANGED <<aggVars, columns, removed>>

AllPassesDone == \A j \in Passes : pc[j] = "done"
ManualMode == \E j \in Passes : jobs[j].manual # {}

\* if not all_results: print("No trades triggered."); return
NoTradesTriggered ==
    /\ main_pc = "run"
    /\ AllPassesDone
    /\ all_results = <<>>
    /\ main_pc' = "no_trades"
    /\ UNCHANGED <<passVars, aggVars, columns, removed>>

\* df_temp.drop_duplicates(subset=["종목코드", "trigger_date"]): the first
\* record of every key is kept, in order.
DedupKeyCodeOnly(r) == <<r.code>>
DedupKey(r) == <<r.code, r.trigger_date>>

RECURSIVE drop_duplicates(_, _, _)
drop_duplicates(rs, k, seen) ==
    IF k > Len(rs) THEN <<>>
    ELSE IF DedupKey(rs[k]) \in seen THEN drop_duplicates(rs, k + 1, seen)
    ELSE <<rs[k]>> \o drop_duplicates(rs, k + 1, seen \cup {DedupKey(rs[k])})

\* The deduplication of manual mode and df_results = pd.DataFrame(all_results)
Collect ==
    /\ main_pc = "run"
    /\ AllPassesDone
    /\ all_results # <<>>
    /\ LET after == IF ManualMode THEN drop_duplicates(all_results, 1, {})
                    ELSE all_results
       IN  /\ df_results' = after
           /\ removed' = Len(all_results) - Len(after)
    /\ main_pc' = "collected"
    /\ UNCHANGED passVars
    /\ UNCHANGED <<summary, apc, row_i, held_counts, max_held_stocks,
                   win_streak, max_win, loss_streak, max_loss, columns>>

\* df['entry_date'].dt.strftime('%G-W%V'): the ISO week of the entry date.
\* Day 1 is a Wednesday: days 1..5 lie in one week, day 6 opens the next.
week(date) == (date + 1) \div 7

\* df['entry_date'].dt.to_period('M'): the month of the entry date.  Day 1
\* is the 26th of a month of 31 days: day 7 opens the next month.
month(date) == (date + 24) \div 31

\* The rows of one group of df.groupby(key).
GroupRows(df, keys, g) == {k \in 1..Len(df) : keys[k] = g}

RECURSIVE return_sum(_, _)
return_sum(df, G) ==
    IF G = {} THEN 0
    ELSE LET k == MinOf(G) IN df[k].return_pct + return_sum(df, G \ {k})

\* win_counts = grouped.apply(lambda g: (g['return_pct'] > 0).sum())
win_counts(df, G) == Cardinality({k \in G : df[k].return_pct > 0})
\* lose_counts = grouped.apply(lambda g: (g['return_pct'] <= 0).sum())
lose_counts(df, G) == Cardinality({k \in G : df[k].return_pct <= 0})

\* One row per group: the sum of returns, the two counts, the win ratio
\* rounded to two decimals (in hundredths) and the group's size.
PeriodRow(df, g, G) ==
    [period |-> g,
     return_pct_sum |-> return_sum(df, G),
     win |-> win_counts(df, G),
     lose |-> lose_counts(df, G),
     win_ratio |-> RoundDiv(win_counts(df, G) * 100, Cardinality(G)),
     traded |-> Cardinality(G)]

PeriodRows(df, keys) ==
    LET index == SortedSeq({keys[k] : k \in 1..Len(df)})
    IN  [n \in 1..Len(index) |->
            PeriodRow(df, index[n], GroupRows(df, keys, index[n]))]

\* generate_weekly_summary: return sum, Win (#), Lose (#) and win ratio per
\* week (the group's size is kept for reference; the sheet has no such
\* column).
generate_weekly_summary(df) ==
    PeriodRows(df, [k \in 1..Len(df) |-> week(df[k].entry_date)])

\* generate_monthly_summary: the same per month with the number of trades,
\* then the Total column (the sum over the months) and the Average column
\* (the mean over the months and the Total column, kept as sum and divisor).
generate_monthly_summary(df) ==
    LET rows == PeriodRows(df, [k \in 1..Len(df) |-> month(df[k].entry_date)])
        total(f) == SumField(rows, 1, f)
    IN  [months |-> rows,
         Total |-> [f \in {"return_pct_sum", "win", "lose", "win_ratio",
                           "traded"} |-> total(f)],
         Average |-> [f \in {"return_pct_sum", "win", "lose", "win_ratio",
                             "traded"} |-> 2 * total(f)],
         AverageOver |-> Len(rows) + 1]

\* monthly_summary_df = generate_monthly_summary(df_results);
\* weekly_summary_df = generate_weekly_summary(df_results)
PeriodSummaries ==
    /\ main_pc = "collected"
    /\ apc = "idle"
    /\ summary' = [monthly_summary_df |-> generate_monthly_summary(df_results),
                   weekly_summary_df |-> generate_weekly_summary(df_results)]
    /\ apc' = "period_done"
    /\ UNCHANGED passVars
    /\ UNCHANGED <<df_results, row_i, held_counts, max_held_stocks,
                   win_streak, max_win, loss_streak, max_loss>>
    /\ UNCHANGED tableVars

\* The input table with one column absent, or complete.
ColumnChoices == {AllColumns} \cup {AllColumns \ {c} : c \in AllColumns}

\* The manual list: rows (종목명, 날짜).  Names 1 and 2 have bars, name 3
\* has none; the dates are the first bar's, two later bars' and one that no
\* bar carries.
ManualSeries(name) ==
    IF name = 1 THEN MakeDf(<<BarE, BarT, BarL, BarT, BarL>>)
    ELSE IF name = 2 THEN MakeDf(<<BarO, BarT, BarE, BarTD, BarL>>)
    ELSE <<>>
ManualDates == {DateOf(0), DateOf(1), DateOf(3), DateOf(2) + 1}
ManualRows ==
    {Job(name, ManualSeries(name), {D}) : name \in 1..2, D \in ManualDates}
        \cup {Job(3, ManualSeries(3), {DateOf(1)})}

InitMain ==
    /\ \/ /\ jobs \in {[k \in 1..NSyms |-> Job(k, f[k], {})] :
                          f \in [1..NSyms -> SeriesPool]}
          /\ columns \in ColumnChoices
       \/ /\ jobs \in [1..NManualRows -> ManualRows]
          /\ columns = AllColumns
    /\ params = GuiDefaults
    /\ InitPasses
    /\ main_pc = "check"
    /\ removed = 0
    /\ AggIdle

NextMain ==
    \/ CheckColumnsFatal
    \/ CheckColumnsOk
    \/ \E j \in Passes : Turn(j) /\ Df(j) # <<>> /\ Start(j)
    \/ \E j \in Passes : SkipNoData(j)
    \/ \E j \in Passes : Runs(j) /\ SkipFirst(j)
    \/ \E j \in Passes : Runs(j) /\ SkipManual(j)
    \/ \E j \in Passes : Runs(j) /\ GateSkip(j)
    \/ \E j \in Passes : Runs(j) /\ NoTrigger(j)
    \/ \E j \in Passes : Runs(j) /\ NoEntryFound(j)
    \/ \E j \in Passes : Runs(j) /\ NoExitFound(j)
    \/ \E j \in Passes : Runs(j) /\ EmitTrade(j)
    \/ \E j \in Passes : Raise(j)
    \/ \E j \in Passes : Turn(j) /\ Finish(j)
    \/ NoTradesTriggered
    \/ Collect
    \/ PeriodSummaries

SpecMain == InitMain /\ [][NextMain]_vars

----------------------------------------------------------------------------
(* Aggregation Engine: the held-count series *)

\* The sum of return_pct over the rows k.. of one entry date.
RECURSIVE GroupSum(_, _, _)
GroupSum(df, k, date) ==
    IF k > Len(df) THEN 0
    ELSE (IF df[k].entry_date = date THEN df[k].return_pct ELSE 0)
         + GroupSum(df, k + 1, date)

\* pd.date_range(a, b): every calendar day from a to b, both included.
date_range(a, b) == a..b

\* held_range = pd.date_range(row['entry_date'], row['exit_date'])
held_rangeWithoutExit(row) == date_range(row.entry_date, row.exit_date - 1)
held_range(row) == date_range(row.entry_date, row.exit_date)

\* pd.date_range(df['entry_date'].min(), df['exit_date'].max())
all_dates(df) ==
    date_range(MinOf({df[k].entry_date : k \in 1..Len(df)}),
               MaxOf({df[k].exit_date : k \in 1..Len(df)}))

\* The other implementation: per date, the rows with entry_date <= date and
\* exit_date >= date.
held_counts_eod(df) ==
    [date \in all_dates(df) |->
        Cardinality({k \in 1..Len(df) :
            df[k].entry_date <= date /\ df[k].exit_date >= date})]

TradeRow(a, b, v) == [entry_date |-> a, exit_date |-> b, return_pct |-> v]

\* Trade tables of 1..HeldMaxTrades rows, any intervals within HeldMaxDay days.
HeldDays == 1..HeldMaxDay
HeldIntervals ==
    {r \in {TradeRow(a, b, 0) : a \in HeldDays, b \in HeldDays} :
        r.entry_date <= r.exit_date}
HeldTables == UNION {[1..n -> HeldIntervals] : n \in 1..HeldMaxTrades}

NoPasses ==
    /\ jobs = <<>>
    /\ params = GuiDefaults
    /\ InitPasses
    /\ columns = AllColumns
    /\ main_pc = "collected"
    /\ removed = 0

InitHeld ==
    /\ NoPasses
    /\ df_results \in HeldTables
    /\ summary = <<>>
    /\ apc = "held"
    /\ row_i = 0
    /\ held_counts = [d \in all_dates(df_results) |-> 0]
    /\ max_held_stocks = 0
    /\ win_streak = 0 /\ max_win = 0
    /\ loss_streak = 0 /\ max_loss = 0

\* for _, row in df_results.iterrows(): held_counts.loc[held_range] += 1
HeldRow ==
    /\ apc = "held"
    /\ row_i < Len(df_results)
    /\ LET row == df_results[row_i + 1]
       IN  held_counts' = [d \in DOMAIN held_counts |->
                              IF d \in held_range(row) THEN held_counts[d] + 1
                              ELSE held_counts[d]]
    /\ row_i' = row_i + 1
    /\ UNCHANGED <<summary, df_results, apc, max_held_stocks, win_streak, max_win,
                   loss_streak, max_loss>>
    /\ UNCHANGED <<passVars, tableVars>>

\* max_held_stocks = held_counts.max()
HeldMax ==
    /\ apc = "held"
    /\ row_i = Len(df_results)
    /\ max_held_stocks' = MaxOf({held_counts[d] : d \in DOMAIN held_counts})
    /\ apc' = "held_done"
    /\ UNCHANGED <<summary, df_results, row_i, held_counts, win_streak, max_win,
                   loss_streak, max_loss>>
    /\ UNCHANGED <<passVars, tableVars>>

\* One row of the summary; a value of the row is the field divided by div
\* (div is 1 except in the Average row).
SummaryRow(kind, date, bought, sold, held, ret, div) ==
    [kind |-> kind, date |-> date, bought |-> bought, sold |-> sold,
     held |-> held, ret |-> ret, div |-> div]

\* total_row = summary.sum(); avg_row = summary.mean(); pd.concat
WithTotalAndAverage(rows) ==
    LET sums(kind, div) ==
            SummaryRow(kind, 0,
                       SumField(rows, 1, "bought"), SumField(rows, 1, "sold"),
                       SumField(rows, 1, "held"), SumField(rows, 1, "ret"),
                       div)
    IN  rows \o <<sums("Total", 1), sums("Average", Len(rows))>>

entry_count(df, date) ==
    Cardinality({k \in 1..Len(df) : df[k].entry_date = date})
\* df['exit_date'].value_counts(), 0 where the date has no exit
exit_counts(df, date) ==
    Cardinality({k \in 1..Len(df) : df[k].exit_date = date})

\* The rows of the summary over an index of dates.
SummaryOver(df, index, held) ==
    [n \in 1..Len(index) |->
        SummaryRow("date", index[n], entry_count(df, index[n]),
                   exit_counts(df, index[n]), held[index[n]],
                   GroupSum(df, 1, index[n]), 1)]

\* generate_daily_summary of the runner: the index is that of
\* df.groupby('entry_date'), the entry dates in order.
daily_summary(df, held) ==
    WithTotalAndAverage(
        SummaryOver(df, SortedSeq({df[k].entry_date : k \in 1..Len(df)}),
                    held))

\* generate_daily_summary of the other implementation: stats_df is
\* reindexed to full_dates and filled with 0.
daily_summary_full(df) ==
    WithTotalAndAverage(
        SummaryOver(df, SortedSeq(all_dates(df)), held_counts_eod(df)))

\* return summary
DailySummary ==
    /\ apc = "held_done"
    /\ summary' = daily_summary(df_results, held_counts)
    /\ apc' = "summary_done"
    /\ UNCHANGED <<df_results, row_i, held_counts, max_held_stocks,
                   win_streak, max_win, loss_streak, max_loss>>
    /\ UNCHANGED <<passVars, tableVars>>

NextHeld == HeldRow \/ HeldMax \/ DailySummary

SpecHeld == InitHeld /\ [][NextHeld]_vars

----------------------------------------------------------------------------
(* Aggregation Engine: calculate_max_streaks *)

\* df.groupby('entry_date')['return_pct'].sum().sort_index()
daily_returns(df) ==
    LET dates == SortedSeq({df[k].entry_date : k \in 1..Len(df)})
    IN  [n \in 1..Len(dates) |-> GroupSum(df, 1, dates[n])]

\* if val > 0 / if val < 0
IsWinDayOrFlat(val) == val >= 0
IsWinDay(val) == val > 0
IsLossDay(val) == val < 0

ReturnValues == {-100, 0, 100}
StreakRows == {TradeRow(d, d, v) : d \in 1..StreakMaxDay, v \in ReturnValues}
\* One trade a day with returns +1, +2, -1, +1, +1, +1, -2.
StreakExample ==
    <<TradeRow(1, 1, 100), TradeRow(2, 2, 200), TradeRow(3, 3, -100),
      TradeRow(4, 4, 100), TradeRow(5, 5, 100), TradeRow(6, 6, 100),
      TradeRow(7, 7, -200)>>
StreakTables ==
    UNION {[1..n -> StreakRows] : n \in 1..StreakMaxTrades} \cup {StreakExample}

InitStreak ==
    /\ NoPasses
    /\ df_results \in StreakTables
    /\ summary = <<>>
    /\ apc = "win"
    /\ row_i = 0
    /\ held_counts = <<>>
    /\ max_held_stocks = 0
    /\ win_streak = 0 /\ max_win = 0
    /\ loss_streak = 0 /\ max_loss = 0

\* The first loop over daily_returns.
WinStep ==
    /\ apc = "win"
    /\ row_i < Len(daily_returns(df_results))
    /\ LET val == daily_returns(df_results)[row_i + 1]
       IN  IF IsWinDay(val)
           THEN /\ win_streak' = win_streak + 1
                /\ max_win' = Max(max_win, win_streak + 1)
           ELSE /\ win_streak' = 0
                /\ max_win' = max_win
    /\ row_i' = row_i + 1
    /\ UNCHANGED <<summary, df_results, apc, held_counts, max_held_stocks,
                   loss_streak, max_loss>>
    /\ UNCHANGED <<passVars, tableVars>>

\* loss_streak = max_loss = 0
WinDone ==
    /\ apc = "win"
    /\ row_i = Len(daily_returns(df_results))
    /\ apc' = "loss"
    /\ row_i' = 0
    /\ loss_streak' = 0
    /\ max_loss' = 0
    /\ UNCHANGED <<summary, df_results, held_counts, max_held_stocks, win_streak,
                   max_win>>
    /\ UNCHANGED <<passVars, tableVars>>

\* The second loop over daily_returns.
LossStep ==
    /\ apc = "loss"
    /\ row_i < Len(daily_returns(df_results))
    /\ LET val == daily_returns(df_results)[row_i + 1]
       IN  IF IsLossDay(val)
           THEN /\ loss_streak' = loss_streak + 1
                /\ max_loss' = Max(max_loss, loss_streak + 1)
           ELSE /\ loss_streak' = 0
                /\ max_loss' = max_loss
    /\ row_i' = row_i + 1
    /\ UNCHANGED <<summary, df_results, apc, held_counts, max_held_stocks,
                   win_streak, max_win>>
    /\ UNCHANGED <<passVars, tableVars>>

\* return max_win, max_loss
StreakReturn ==
    /\ apc = "loss"
    /\ row_i = Len(daily_returns(df_results))
    /\ apc' = "streak_done"
    /\ UNCHANGED <<summary, df_results, row_i, held_counts, max_held_stocks,
                   win_streak, max_win, loss_streak, max_loss>>
    /\ UNCHANGED <<passVars, tableVars>>

NextStreak == WinStep \/ WinDone \/ LossStep \/ StreakReturn

SpecStreak == InitStreak /\ [][NextStreak]_vars

----------------------------------------------------------------------------
(* Reading the trade records back against the bar series *)

Range(seq) == {seq[k] : k \in 1..Len(seq)}
Recs(j) == Range(results[j])

\* Dates are strictly increasing, so a date names one row.
IdxOfDate(d, date) == CHOOSE i \in 0..(Len(d) - 1) : Row(d, i).date = date
TrigIdx(j, r)  == IdxOfDate(Df(j), r.trigger_date)
EntryIdx(j, r) == IdxOfDate(Df(j), r.entry_date)
ExitIdx(j, r)  == IdxOfDate(Df(j), r.exit_date)
DfOfCode(c) == jobs[CHOOSE j \in Passes : jobs[j].code = c].df

TargetOnly(row, r) == row.high >= r.target_price
                      /\ ~(row.low <= row.ma10 \/ row.open < row.ma10)
BothHit(row, r) == row.high >= r.target_price
                   /\ (row.low <= row.ma10 \/ row.open < row.ma10)

----------------------------------------------------------------------------
(* Claims about one pass (specification Spec) *)

\* C1: no trade record is a win whose exit bar is its entry bar; a
\* target-only hit on the entry bar is ignored and the trade exits on a
\* later bar.
C1_NoSameDayWin ==
    \A j \in Passes : \A r \in Recs(j) :
        /\ r.outcome = "win" => r.exit_date # r.entry_date
        /\ TargetOnly(Row(Df(j), EntryIdx(j, r)), r)
               => r.exit_date > r.entry_date

\* A win recorded on a later bar after the entry bar itself reached the target.
C1_Witness ==
    \E j \in Passes : \E r \in Recs(j) :
        /\ TargetOnly(Row(Df(j), EntryIdx(j, r)), r)
        /\ r.outcome = "win"
        /\ ExitIdx(j, r) > EntryIdx(j, r)

\* C2: a bar of the exit scan (the entry bar included) on which the target
\* and MA10 are both hit ends the trade there as a loss, at the open if the
\* bar opened under MA10 and at MA10 otherwise.
C2_BothHitIsLoss ==
    \A j \in Passes : \A r \in Recs(j) :
        \A k \in EntryIdx(j, r)..ExitIdx(j, r) :
            LET row == Row(Df(j), k)
            IN  BothHit(row, r) =>
                    /\ k = ExitIdx(j, r)
                    /\ r.outcome = "loss"
                    /\ r.exit_price =
                         (IF row.open < row.ma10 THEN row.open ELSE row.ma10)

\* One pass holds a both-hit exit at the open on a later bar and a both-hit
\* exit at MA10 on the entry bar itself.
C2_Witness ==
    \E j \in Passes : \E r1, r2 \in Recs(j) :
        /\ BothHit(Row(Df(j), ExitIdx(j, r1)), r1)
        /\ ExitIdx(j, r1) > EntryIdx(j, r1)
        /\ r1.exit_price = Row(Df(j), ExitIdx(j, r1)).open
        /\ BothHit(Row(Df(j), ExitIdx(j, r2)), r2)
        /\ ExitIdx(j, r2) = EntryIdx(j, r2)
        /\ r2.exit_price = Row(Df(j), ExitIdx(j, r2)).ma10

\* C3: in every trade record 1 <= trigger index < entry index <= exit index.
C3_IndexOrder ==
    \A j \in Passes : \A r \in Recs(j) :
        /\ TrigIdx(j, r) >= 1
        /\ TrigIdx(j, r) < EntryIdx(j, r)
        /\ EntryIdx(j, r) <= ExitIdx(j, r)

\* A record triggered on bar 1, entered on bar 2 and exited on that same bar.
C3_Witness ==
    \E j \in Passes : \E r \in Recs(j) :
        /\ TrigIdx(j, r) = 1
        /\ EntryIdx(j, r) = 2
        /\ ExitIdx(j, r) = 2

\* C4: two records of one symbol in the batch output whose [trigger, exit]
\* windows overlap have a bar with close < MA20 strictly between their
\* trigger bars.
C4_OverlapNeedsDipBetween ==
    \A a, b \in Range(all_results) :
        (/\ a.code = b.code
         /\ a.trigger_date < b.trigger_date
         /\ b.trigger_date <= a.exit_date)
        => \E i \in 0..(Len(DfOfCode(a.code)) - 1) :
              LET row == Row(DfOfCode(a.code), i)
              IN  /\ a.trigger_date < row.date
                  /\ row.date < b.trigger_date
                  /\ row.close < row.ma20

\* C5: the gate of a pass is armed only by the step that emits a record and
\* is cleared only by a step that scans a bar with close < MA20; a step that
\* starts with the gate armed emits a record only from such a bar; so any two
\* consecutive records of a pass have a bar with close < MA20 after the
\* first one's trigger bar and not after the second one's.
C5_DipBetweenRecords ==
    \A j \in Passes : \A k \in 1..(Len(results[j]) - 1) :
        \E i \in 0..(Len(Df(j)) - 1) :
            /\ TrigIdx(j, results[j][k]) < i
            /\ i <= TrigIdx(j, results[j][k + 1])
            /\ i <= idx[j]
            /\ Row(Df(j), i).close < Row(Df(j), i).ma20

C5_GateStep ==
    \A j \in Passes :
        LET emitted == Len(results'[j]) = Len(results[j]) + 1
            scanned == Row(Df(j), idx'[j])
        IN  /\ (~waiting_for_ma20_dip[j] /\ waiting_for_ma20_dip'[j])
                   => emitted
            /\ emitted => waiting_for_ma20_dip'[j]
            /\ (waiting_for_ma20_dip[j] /\ ~waiting_for_ma20_dip'[j])
                   => (idx'[j] = idx[j] + 1 /\ scanned.close < scanned.ma20)
            /\ (waiting_for_ma20_dip[j] /\ emitted)
                   => (idx'[j] = idx[j] + 1 /\ scanned.close < scanned.ma20)

C5_GateRearm == [][C5_GateStep]_vars /\ []C5_DipBetweenRecords

\* Two records of one pass with the dip on a bar of its own between them.
C5_Witness ==
    \E j \in Passes :
        /\ Len(results[j]) = 2
        /\ \E i \in 0..(Len(Df(j)) - 1) :
              /\ TrigIdx(j, results[j][1]) < i
              /\ i < TrigIdx(j, results[j][2])
              /\ Row(Df(j), i).close < Row(Df(j), i).ma20

\* C6: after a record is emitted no bar strictly between its trigger bar and
\* its exit bar is examined (idx is the bar the last iteration examined).
C6_ResumesAtExitBar ==
    \A j \in Passes : \A r \in Recs(j) :
        ~(TrigIdx(j, r) < idx[j] /\ idx[j] < ExitIdx(j, r))

\* C8 as written: the target price and return_pct are the exact quotients.
C8_ExactFormulas ==
    \A j \in Passes : \A r \in Recs(j) :
        LET er == Row(Df(j), EntryIdx(j, r))
        IN  /\ r.target_price * er.ma10 = r.entry_price * er.ma5
            /\ r.return_pct * r.entry_price
                   = (r.exit_price - r.entry_price) * 10000

\* C8 (amended): the target price is entry x (1 + (MA5 - MA10)/MA10) of the
\* entry bar rounded to the hundredth, return_pct is (exit - entry)/entry x
\* 100 rounded to the hundredth; an entry at the open 100.00 with a 5 %
\* spread has target 105.00, and if it exits on a later bar that breaches its
\* MA10 = 102.00 intraday with a high under 105.00, the record has exit price
\* 102.00, return_pct 2.00 and outcome loss.
C8_RoundedFormulas ==
    \A j \in Passes : \A r \in Recs(j) :
        LET er == Row(Df(j), EntryIdx(j, r))
            xr == Row(Df(j), ExitIdx(j, r))
            terr == r.target_price * er.ma10 - r.entry_price * er.ma5
            rerr == r.return_pct * r.entry_price
                        - (r.exit_price - r.entry_price) * 10000
        IN  /\ 2 * terr <= er.ma10 /\ -2 * terr <= er.ma10
            /\ 2 * rerr <= r.entry_price /\ -2 * rerr <= r.entry_price
            /\ (/\ r.entry_price = 10000
                /\ er.open = 10000
                /\ 100 * (er.ma5 - er.ma10) = 5 * er.ma10)
               => /\ r.target_price = 10500
                  /\ (/\ ExitIdx(j, r) > EntryIdx(j, r)
                      /\ xr.ma10 = 10200
                      /\ xr.low <= xr.ma10
                      /\ xr.open >= xr.ma10
                      /\ xr.high < 10500)
                     => (/\ r.exit_price = 10200
                         /\ r.return_pct = 200
                         /\ r.outcome = "loss")

\* The worked example: entry at the open 100.00, target 105.00, exit on a
\* later bar at its MA10 = 102.00.
C8_Witness ==
    \E j \in Passes : \E r \in Recs(j) :
        LET er == Row(Df(j), EntryIdx(j, r))
            xr == Row(Df(j), ExitIdx(j, r))
        IN  /\ r.entry_price = 10000 /\ er.open = 10000
            /\ 100 * (er.ma5 - er.ma10) = 5 * er.ma10
            /\ r.target_price = 10500
            /\ ExitIdx(j, r) > EntryIdx(j, r)
            /\ xr.ma10 = 10200 /\ xr.low <= xr.ma10 /\ xr.high < 10500
            /\ r.exit_price = 10200 /\ r.return_pct = 200
            /\ r.outcome = "loss"

----------------------------------------------------------------------------
(* Claims about the batch (specification SpecBatch) *)

\* C7: every pass starts with its gate clear, a step of one pass leaves the
\* gate of every other pass as it was, and once all passes are done the set
\* of records of the batch is the union of what each symbol's pass yields on
\* its own, whatever the order or interleaving of the passes was.
C7_GateStep ==
    \A j \in Passes :
        /\ (pc[j] = "ready" /\ pc'[j] = "scan") => ~waiting_for_ma20_dip'[j]
        /\ (pc'[j] = pc[j] /\ idx'[j] = idx[j])
               => waiting_for_ma20_dip'[j] = waiting_for_ma20_dip[j]

C7_BatchIsUnionOfPasses ==
    (\A j \in Passes : pc[j] = "done")
        => Range(all_results)
               = UNION {Range(run_backtest(jobs[j], params)) : j \in Passes}

C7_GateIsLocal == [][C7_GateStep]_vars /\ []C7_BatchIsUnionOfPasses

\* All passes done; one symbol's record was triggered on a bar with close >=
\* MA20 while another symbol's pass, run up to then, had its gate armed.
C7_Witness ==
    /\ \A j \in Passes : pc[j] = "done"
    /\ \E a, b \in Range(all_results) :
          /\ a.code # b.code
          /\ a.trigger_date < b.trigger_date
          /\ \E i \in 0..(Len(DfOfCode(b.code)) - 1) :
                LET row == Row(DfOfCode(b.code), i)
                IN  row.date = b.trigger_date /\ row.close >= row.ma20
          /\ \A i \in 0..(Len(DfOfCode(a.code)) - 1) :
                LET row == Row(DfOfCode(a.code), i)
                IN  row.date > a.trigger_date => row.close >= row.ma20

----------------------------------------------------------------------------
(* Claims about the analytics (specifications SpecHeld and SpecStreak) *)

Covering(df, d) ==
    {k \in 1..Len(df) : df[k].entry_date <= d /\ d <= df[k].exit_date}
FirstEntry(df) == MinOf({df[k].entry_date : k \in 1..Len(df)})
LastExit(df) == MaxOf({df[k].exit_date : k \in 1..Len(df)})

\* C9: once the held-count loop has run, every calendar date d from the
\* earliest entry to the latest exit has held count = the number of records
\* with entry_date <= d <= exit_date, the max held statistic is the largest
\* of these counts, and the per-date filter count gives the same series.
C9_HeldCounts ==
    apc = "held_done" =>
        /\ DOMAIN held_counts = FirstEntry(df_results)..LastExit(df_results)
        /\ \A d \in FirstEntry(df_results)..LastExit(df_results) :
              held_counts[d] = Cardinality(Covering(df_results, d))
        /\ \E d \in FirstEntry(df_results)..LastExit(df_results) :
              max_held_stocks = Cardinality(Covering(df_results, d))
        /\ \A d \in FirstEntry(df_results)..LastExit(df_results) :
              max_held_stocks >= Cardinality(Covering(df_results, d))
        /\ held_counts = held_counts_eod(df_results)

\* Three records, two of them covering a date that is the exit date of one
\* and the entry date of another, and a date no record covers.
C9_Witness ==
    /\ apc = "held_done"
    /\ Len(df_results) = 3
    /\ max_held_stocks = 2
    /\ \E d \in DOMAIN held_counts : held_counts[d] = 0
    /\ \E a, b \in 1..3 :
          /\ df_results[a].exit_date = df_results[b].entry_date
          /\ df_results[a].entry_date < df_results[b].entry_date
          /\ held_counts[df_results[b].entry_date] = 2

RECURSIVE SumOfReturns(_, _)
SumOfReturns(df, K) ==
    IF K = {} THEN 0
    ELSE LET k == CHOOSE x \in K : TRUE
         IN  df[k].return_pct + SumOfReturns(df, K \ {k})

\* The aggregate return of each entry date, in date order.
DailyAggregate(df) ==
    LET dates == {df[k].entry_date : k \in 1..Len(df)}
        rank(d) == Cardinality({e \in dates : e <= d})
    IN  [n \in 1..Cardinality(dates) |->
            LET d == CHOOSE e \in dates : rank(e) = n
            IN  SumOfReturns(df, {k \in 1..Len(df) : df[k].entry_date = d})]

\* The length of the longest run of consecutive elements of s with
\* sign * s[n] > 0.
LongestRun(s, sign) ==
    LET runs == {w \in (1..Len(s)) \X (1..Len(s)) :
                    /\ w[1] <= w[2]
                    /\ \A n \in w[1]..w[2] : sign * s[n] > 0}
    IN  MaxOf({0} \cup {w[2] - w[1] + 1 : w \in runs})

\* C10: the streak statistics are the longest runs of consecutive entry
\* dates whose aggregate return is strictly positive (wins) and strictly
\* negative (losses); a date whose sum is exactly 0 ends both kinds of run;
\* sums of +1, +2, -1, +1, +1, +1, -2 give (3, 1) and an all-zero series
\* gives (0, 0).
C10_MaxStreaks ==
    apc = "streak_done" =>
        LET s == DailyAggregate(df_results)
        IN  /\ max_win = LongestRun(s, 1)
            /\ max_loss = LongestRun(s, -1)
            /\ s = <<100, 200, -100, 100, 100, 100, -200>>
                  => max_win = 3 /\ max_loss = 1
            /\ (\A n \in 1..Len(s) : s[n] = 0)
                  => max_win = 0 /\ max_loss = 0

\* A finished computation where a winning date is followed by a date whose
\* two trades cancel to an aggregate of exactly 0: the longest win run is 1
\* and there is no loss run, although a losing trade exists.
C10_Witness ==
    /\ apc = "streak_done"
    /\ Len(df_results) = 3
    /\ DailyAggregate(df_results) = <<100, 0>>
    /\ \E k \in 1..3 : df_results[k].return_pct = -100
    /\ max_win = 1
    /\ max_loss = 0

\* The worked example is computed to the end.
C10_ExampleDone ==
    /\ apc = "streak_done"
    /\ df_results = StreakExample
    /\ max_win = 3
    /\ max_loss = 1

----------------------------------------------------------------------------
(* Claims about the configuration and the input table *)

\* The thresholds with every disabled one (passed as "" or as None) left
\* out of the trigger decision and the others unchanged.
OmitDisabled(p) ==
    [n \in ParamNames |-> [on |-> p[n].k = "num", v |-> p[n].v]]

\* C11: a threshold passed as "" or as None is disabled on its own: a
\* finished pass has exactly the trade records of the pass whose trigger
\* decision omits the disabled conditions and keeps every other condition.
C11_DisabledThresholdOmitted ==
    \A j \in Passes :
        pc[j] = "done" =>
            results[j] = RunPass(jobs[j].code, Df(j), OmitDisabled(params),
                                 jobs[j].manual, 0, FALSE, <<>>)

\* The columns the contract calls mandatory.
MandatoryColumns ==
    {"date", "code", "name", "open", "high", "low", "close", "value", "pct",
     "ma5", "ma10", "ma20"}

\* C12: when a mandatory column is missing from the input table the batch
\* stops before any pass begins: no pass leaves its start, no bar is
\* scanned and no record or table is produced.
C12_MissingColumnIsFatal ==
    ~(MandatoryColumns \subseteq columns) =>
        /\ main_pc \in {"check", "fatal"}
        /\ \A j \in Passes :
              pc[j] = "ready" /\ idx[j] = -1 /\ results[j] = <<>>
        /\ all_results = <<>>
        /\ df_results = <<>>

\* C13: a pass that raises a data error (a KeyError on an absent column) is
\* skipped without ending the batch: main() stays in its loop or goes on to
\* its collection, so the remaining symbols are still run.
C13_ErrorSkipsSymbolOnly ==
    \A j \in Passes :
        pc[j] = "raised" => main_pc \in {"run", "no_trades", "collected"}

----------------------------------------------------------------------------
(* Claims about manual mode (specification SpecMain) *)

KeyOf(r) == <<r.code, r.trigger_date>>
\* The positions of all_results that hold the first record of their key.
FirstOfKey(rs) ==
    {k \in 1..Len(rs) : \A m \in 1..(k - 1) : KeyOf(rs[m]) # KeyOf(rs[k])}

\* C14: in manual mode the final table has no two records with the same
\* (symbol code, trigger date); it is the collection reduced to the first
\* record of every key, in collection order, so records whose key is unique
\* are all kept unchanged; the logged removed count is the number of
\* records before minus the number after.
C14_DedupKeepsFirst ==
    (main_pc = "collected" /\ ManualMode) =>
        LET order == SortedSeq(FirstOfKey(all_results))
        IN  /\ \A a, b \in 1..Len(df_results) :
                  a # b => KeyOf(df_results[a]) # KeyOf(df_results[b])
            /\ df_results = [n \in 1..Len(order) |-> all_results[order[n]]]
            /\ \A k \in 1..Len(all_results) :
                  (\A m \in 1..Len(all_results) :
                      m # k => KeyOf(all_results[m]) # KeyOf(all_results[k]))
                  => \E n \in 1..Len(df_results) :
                        df_results[n] = all_results[k]
            /\ removed = Len(all_results) - Len(df_results)

\* The manual list named one (symbol, date) twice with another row between:
\* three records collected, the third removed, the other two kept in order.
C14_Witness ==
    /\ main_pc = "collected"
    /\ ManualMode
    /\ Len(all_results) = 3
    /\ KeyOf(all_results[1]) = KeyOf(all_results[3])
    /\ KeyOf(all_results[1]) # KeyOf(all_results[2])
    /\ all_results[1].code = all_results[2].code
    /\ df_results = <<all_results[1], all_results[2]>>
    /\ removed = 1

DatesOf(d) == {d[k].date : k \in 1..Len(d)}

\* C15: a manual pass evaluates only the bar of its forced date: it has at
\* most one record, every record carries the forced date as trigger date, a
\* forced date on the first bar or on no bar gives no record, and a row
\* whose symbol has no bars is never scanned and does not stop the list.
C15_ManualOnlyForcedDate ==
    \A j \in Passes :
        jobs[j].manual # {} =>
            /\ Len(results[j]) <= 1
            /\ \A n \in 1..Len(results[j]) :
                  results[j][n].trigger_date \in jobs[j].manual
            /\ (\/ Df(j) = <<>>
                \/ jobs[j].manual \cap DatesOf(Df(j)) = {}
                \/ Row(Df(j), 0).date \in jobs[j].manual)
                  => results[j] = <<>>
            /\ Df(j) = <<>> =>
                  /\ idx[j] = -1
                  /\ pc[j] \in {"ready", "done"}
                  /\ main_pc \in {"check", "run", "no_trades", "collected"}

\* A list whose first row names a symbol without bars, whose second row
\* forces a date that triggers and trades, and whose third row forces a date
\* no bar carries: the table holds the one record of the second row.
C15_Witness ==
    /\ main_pc = "collected"
    /\ Len(jobs) = 3
    /\ Df(1) = <<>>
    /\ Len(results[2]) = 1
    /\ results[2][1].trigger_date \in jobs[2].manual
    /\ results[2][1].trigger_date > Row(Df(2), 1).date
    /\ jobs[3].manual \cap DatesOf(Df(3)) = {}
    /\ Df(3) # <<>>
    /\ df_results = results[2]

----------------------------------------------------------------------------
(* Claims about the daily summary (specification SpecHeld) *)

\* The summary has one row per calendar date from the earliest entry to the
\* latest exit, then a Total and an Average row, and the exit and held
\* counts of every date row are the records exiting on and covering it.
CalendarSummary(rows, df) ==
    LET cal == SortedSeq(FirstEntry(df)..LastExit(df))
        n   == Len(cal)
    IN  /\ Len(rows) = n + 2
        /\ \A k \in 1..n :
              /\ rows[k].kind = "date"
              /\ rows[k].date = cal[k]
              /\ rows[k].bought = entry_count(df, cal[k])
              /\ rows[k].sold = exit_counts(df, cal[k])
              /\ rows[k].held = Cardinality(Covering(df, cal[k]))
        /\ rows[n + 1].kind = "Total"
        /\ rows[n + 2].kind = "Average"

\* C16: the daily summary returned for a trade-record table has exactly one
\* row for every calendar date from the earliest entry date to the latest
\* exit date (dates without entries filled with 0), followed by a Total row
\* and an Average row, with the exit count and held count of each date; in
\* either implementation.
C16_CalendarRows ==
    apc = "summary_done" =>
        /\ CalendarSummary(daily_summary_full(df_results), df_results)
        /\ CalendarSummary(summary, df_results)

\* The implementation that reindexes to the full calendar does so.
C16_FullCalendarVariant ==
    apc = "summary_done" =>
        CalendarSummary(daily_summary_full(df_results), df_results)

----------------------------------------------------------------------------
(* Claims about streaks over the calendar (specification SpecStreak) *)

\* The aggregate return of every calendar date from the first entry date to
\* the last, in order; a date without any entry has no aggregate, which
\* interrupts a run like a return of 0.
CalendarAggregate(df) ==
    LET first == MinOf({df[k].entry_date : k \in 1..Len(df)})
        last  == MaxOf({df[k].entry_date : k \in 1..Len(df)})
    IN  [n \in 1..(last - first + 1) |->
            SumOfReturns(df, {k \in 1..Len(df) :
                                 df[k].entry_date = first + n - 1})]

\* C17: the max win (loss) streak is the longest run of consecutive calendar
\* dates with aggregate return > 0 (< 0); two same-signed entry dates with a
\* calendar date without entries between them are two runs, not one.
C17_CalendarStreaks ==
    apc = "streak_done" =>
        /\ max_win = LongestRun(CalendarAggregate(df_results), 1)
        /\ max_loss = LongestRun(CalendarAggregate(df_results), -1)

----------------------------------------------------------------------------
(* Claims about the trigger and entry rules (specification SpecEdge) *)

\* The fixed trigger conditions with every bound inclusive as stated: the
\* previous percent change not below -10, close >= MA5 x 1.05, MA20 at most
\* 4 % over MA10, MA10 at most 5 % over MA5, open at most 10 % under the
\* previous close.
FixedConditions(d, i) ==
    LET row  == Row(d, i)
        prev == Row(d, i - 1)
    IN  /\ prev.pct >= -1000
        /\ 100 * row.close >= 105 * row.ma5
        /\ 100 * (row.ma20 - row.ma10) <= 4 * row.ma10
        /\ 100 * (row.ma10 - row.ma5) <= 5 * row.ma5
        /\ 100 * (row.open - prev.close) >= -10 * prev.close

\* C18: with the gate clear, the enabled thresholds passing and the flat-day
\* filter passing, an examined bar at index >= 1 is accepted as a trigger iff the
\* fixed conditions hold with every bound inclusive (a previous percent
\* change of exactly -10 is accepted); on the three-bar series, whose last
\* bar gives any trigger its entry and exit, the finished pass has a record
\* iff bar 1 satisfies them.
C18_TriggerIff ==
    \A j \in Passes :
        LET d   == Df(j)
            thr == Converted(params)
        IN  /\ \A i \in 1..idx[j] :
                  (/\ ThresholdsPass(thr, Row(d, i))
                   /\ ~has_3_or_more_consecutive_zeros(d, i))
                  => (IterKind(d, thr, {}, i, FALSE) # "no_trigger"
                        <=> FixedConditions(d, i))
            /\ (pc[j] = "done" /\ ~ConversionFails(params)
                  /\ d \in TriggerEdgeSeries)
                  => (results[j] # <<>> <=> FixedConditions(d, 1))

\* The bars before bar i that the filter looks at: at most the 20 bars
\* just before it.
FlatWindow(i) == {k \in 0..(i - 1) : i - k <= 20}
\* A run of 3 consecutive bars with percent change exactly 0 among them.
ZeroRunInWindow(d, i) ==
    \E k \in FlatWindow(i) :
        /\ k + 2 \in FlatWindow(i)
        /\ \A m \in k..(k + 2) : Row(d, m).pct = 0

Candidates(d, i) == {k \in (i + 1)..(Len(d) - 1) : crossed_down_ma5(Row(d, k))}
Rejected(r) ==
    \/ r.open < r.ma10
    \/ 100 * (r.ma5 - r.ma10) < 3 * r.ma10
    \/ ~(r.ma5 > r.ma10 /\ r.ma10 > r.ma20)
StatedEntryPrice(r) ==
    IF r.open < r.ma5 THEN r.open
    ELSE IF r.low <= r.ma5 /\ r.ma5 <= r.high THEN r.ma5
    ELSE r.open

\* C20: from a trigger at bar i the entry is decided by the first later bar
\* with a price under its MA5 alone: none if there is no such bar or if
\* that bar is rejected (open < MA10, spread < 3 %, or MA5 > MA10 > MA20
\* failing), whatever follows; otherwise that bar at the stated price.  Every
\* record's entry is that bar at that price, and no two records of a pass
\* have the same trigger.
C20_FirstCandidateDecides ==
    \A j \in Passes :
        LET d == Df(j)
        IN  /\ \A i \in 1..idx[j] :
                  LET en == EntrySearch(d, EntryStart(i))
                      c  == Candidates(d, i)
                  IN  IF c = {} \/ Rejected(Row(d, MinOf(c)))
                      THEN ~en.found
                      ELSE /\ en.found
                           /\ en.entry_idx = MinOf(c)
                           /\ en.entry_price = StatedEntryPrice(Row(d, MinOf(c)))
            /\ \A n \in 1..Len(results[j]) :
                  LET rec == results[j][n]
                      c   == Candidates(d, IdxOfDate(d, rec.trigger_date))
                  IN  /\ c # {}
                      /\ ~Rejected(Row(d, MinOf(c)))
                      /\ rec.entry_date = Row(d, MinOf(c)).date
                      /\ rec.entry_price = StatedEntryPrice(Row(d, MinOf(c)))
            /\ \A a, b \in 1..Len(results[j]) :
                  a # b => results[j][a].trigger_date # results[j][b].trigger_date

\* A finished pass whose trigger at bar 1 is followed by a bar under its MA5
\* that is rejected and then by a bar that would have been a valid entry:
\* the pass has no record.
C20_Witness ==
    \E j \in Passes :
        LET d == Df(j)
        IN  /\ pc[j] = "done"
            /\ ~ConversionFails(params)
            /\ d \in EntryEdgeSeries
            /\ IsTrigger(d, 1, Converted(params))
            /\ crossed_down_ma5(Row(d, 2))
            /\ Rejected(Row(d, 2))
            /\ crossed_down_ma5(Row(d, 3))
            /\ ~Rejected(Row(d, 3))
            /\ results[j] = <<>>

----------------------------------------------------------------------------
(* Claims about the exit scan and the record's fields *)

Ma10Only(row, r) == (row.low <= row.ma10 \/ row.open < row.ma10)
                    /\ row.high < r.target_price
Hits(row, r) == TargetOnly(row, r) \/ BothHit(row, r) \/ Ma10Only(row, r)

\* The entry of a trigger at bar i never exits: from the entry bar to the
\* last bar no bar hits, a target-only hit on the entry bar aside.
NeverExits(d, i) ==
    LET en == EntrySearch(d, EntryStart(i))
        t  == [target_price |-> TargetOf(d, en)]
    IN  /\ en.found
        /\ \A k \in en.entry_idx..(Len(d) - 1) :
              \/ ~Hits(Row(d, k), t)
              \/ k = en.entry_idx /\ TargetOnly(Row(d, k), t)

\* C21: in the exit scan from the entry bar the first bar that hits decides:
\* no earlier bar hits (a target-only hit on the entry bar aside); a
\* target-only exit bar is after the entry bar and gives a win at the
\* target; an MA10-only exit bar gives a loss at the open if it opened under
\* MA10 and at MA10 otherwise; an examined trigger whose entry meets no hit
\* through the last bar has no record.
C21_FirstHitDecides ==
    \A j \in Passes :
        /\ \A r \in Recs(j) :
              LET e    == EntryIdx(j, r)
                  x    == ExitIdx(j, r)
                  xrow == Row(Df(j), x)
              IN  /\ \A k \in e..(x - 1) :
                        \/ ~Hits(Row(Df(j), k), r)
                        \/ k = e /\ TargetOnly(Row(Df(j), k), r)
                  /\ Hits(xrow, r)
                  /\ TargetOnly(xrow, r) =>
                        /\ x > e
                        /\ r.outcome = "win"
                        /\ r.exit_price = r.target_price
                  /\ Ma10Only(xrow, r) =>
                        /\ r.outcome = "loss"
                        /\ r.exit_price =
                             (IF xrow.open < xrow.ma10 THEN xrow.open
                              ELSE xrow.ma10)
        /\ \A i \in 1..idx[j] :
              NeverExits(Df(j), i) =>
                  \A r \in Recs(j) : r.trigger_date # Row(Df(j), i).date

\* A record that leaves on a later bar that opened under its MA10 without
\* reaching the target: a loss at that bar's open.
C21_Witness ==
    \E j \in Passes : \E r \in Recs(j) :
        LET xrow == Row(Df(j), ExitIdx(j, r))
        IN  /\ ExitIdx(j, r) > EntryIdx(j, r)
            /\ Ma10Only(xrow, r)
            /\ xrow.open < xrow.ma10
            /\ r.outcome = "loss"
            /\ r.exit_price = xrow.open

\* A finished pass with an examined trigger whose entry never exits.
C21_NoExitSeen ==
    \E j \in Passes :
        /\ pc[j] = "done"
        /\ \E i \in 1..idx[j] :
              /\ IsTrigger(Df(j), i, Converted(params))
              /\ NeverExits(Df(j), i)
        /\ results[j] = <<>>

\* The lowest low-minus-entry of the bars from the entry bar through the
\* exit bar, capped at 0, in price units.
DrawdownOver(j, r) ==
    Min(0, MinOf({Row(Df(j), k).low - r.entry_price :
                     k \in EntryIdx(j, r)..ExitIdx(j, r)}))

\* C22 as stated: max_drawdown is exactly min(0, min over the bars from entry
\* through exit of (low - entry price) / entry price x 100).
C22_ExactDrawdown ==
    \A j \in Passes : \A r \in Recs(j) :
        r.max_drawdown * r.entry_price = DrawdownOver(j, r) * 10000

\* C22 amended: max_drawdown is min(0, min over the bars from the entry bar
\* through the exit bar of (low - entry price) / entry price x 100) rounded
\* to two decimals; it is never positive and bars after the exit bar do not
\* contribute.
C22_RoundedDrawdown ==
    \A j \in Passes : \A r \in Recs(j) :
        /\ r.max_drawdown = RoundDiv(DrawdownOver(j, r) * 10000, r.entry_price)
        /\ r.max_drawdown <= 0

\* A record with a negative drawdown that two decimals cannot hold, followed
\* by a bar whose low is under every low of the trade.
C22_Witness ==
    \E j \in Passes : \E r \in Recs(j) :
        /\ r.max_drawdown < 0
        /\ r.max_drawdown * r.entry_price # DrawdownOver(j, r) * 10000
        /\ \E k \in (ExitIdx(j, r) + 1)..(Len(Df(j)) - 1) :
              Row(Df(j), k).low - r.entry_price < DrawdownOver(j, r)

\* C23: a record whose exit bar is its entry bar is a loss at the entry
\* bar's MA10, never at its open, with return_pct <= 0: the entry bar opened
\* at or above its MA10 and the entry price is at least that MA10.
C23_SameBarExit ==
    \A j \in Passes : \A r \in Recs(j) :
        r.exit_date = r.entry_date =>
            LET er == Row(Df(j), EntryIdx(j, r))
            IN  /\ r.outcome = "loss"
                /\ er.open >= er.ma10
                /\ r.entry_price >= er.ma10
                /\ r.exit_price = er.ma10
                /\ r.return_pct <= 0

\* A record that leaves on its entry bar with a strict loss, on a bar whose
\* open is above its MA10.
C23_Witness ==
    \E j \in Passes : \E r \in Recs(j) :
        LET er == Row(Df(j), EntryIdx(j, r))
        IN  /\ r.exit_date = r.entry_date
            /\ er.open > er.ma10
            /\ r.exit_price = er.ma10
            /\ r.return_pct < 0

\* C24: a record with outcome 'win' has exit_price = target_price, above the
\* entry price, and return_pct > 0, the entry bar's MA5 being at least 3 %
\* over its MA10; so a record with return_pct <= 0 has outcome 'loss'.
C24_WinIsAtTarget ==
    \A j \in Passes : \A r \in Recs(j) :
        LET er == Row(Df(j), EntryIdx(j, r))
        IN  /\ (er.ma5 - er.ma10) * 100 >= 3 * er.ma10
            /\ r.target_price > r.entry_price
            /\ r.outcome = "win" =>
                  /\ r.exit_price = r.target_price
                  /\ r.return_pct > 0
            /\ r.return_pct <= 0 => r.outcome = "loss"

\* A win at the target on a later bar that closed away from the target.
C24_Witness ==
    \E j \in Passes : \E r \in Recs(j) :
        /\ r.outcome = "win"
        /\ r.exit_price = r.target_price
        /\ r.return_pct > 0
        /\ Row(Df(j), ExitIdx(j, r)).close # r.target_price

----------------------------------------------------------------------------
(* Claims about the weekly and monthly summaries and the record ids *)

\* The rows of the weekly and of the monthly summary with the records of
\* their groups.
PeriodGroups ==
    LET df == df_results
        wk == [k \in 1..Len(df) |-> week(df[k].entry_date)]
        mo == [k \in 1..Len(df) |-> month(df[k].entry_date)]
        w  == summary.weekly_summary_df
        m  == summary.monthly_summary_df.months
    IN  {<<w[n], {df[k] : k \in GroupRows(df, wk, w[n].period)}>> :
            n \in 1..Len(w)}
        \cup
        {<<m[n], {df[k] : k \in GroupRows(df, mo, m[n].period)}>> :
            n \in 1..Len(m)}

\* Win (#) + Lose (#) is the number of records of the group, in both
\* summaries.
C25_CountsPartition ==
    apc = "period_done" =>
        \A g \in PeriodGroups :
            g[1].win + g[1].lose = Cardinality(g[2])

\* C25: in the weekly and monthly summaries Win (#) + Lose (#) is the number
\* of records of the group and Win (#) is the number of records of the group
\* whose outcome is 'win'.
C25_WinCountIsOutcome ==
    apc = "period_done" =>
        \A g \in PeriodGroups :
            /\ g[1].win + g[1].lose = Cardinality(g[2])
            /\ g[1].win = Cardinality({r \in g[2] : r.outcome = "win"})

----------------------------------------------------------------------------
(* Claims about the steps of the trigger scan *)

\* The trigger test, the entry search and the exit scan from bar i succeed.
TradeFrom(d, i, thr) ==
    /\ IsTrigger(d, i, thr)
    /\ LET en == EntrySearch(d, EntryStart(i))
       IN  /\ en.found
           /\ is_valid_entry(Row(d, en.entry_idx))
           /\ ExitOf(d, en).found

\* C26: the scan moves one bar at a time; a bar met with the gate set whose
\* close is under its MA20 clears the gate and is tested as a trigger in the
\* same step, so that a trade found from it is recorded with that bar as
\* trigger bar; a bar met with the gate set whose close is not under its
\* MA20 is passed with the gate and the records unchanged, and is never
\* returned to.
C26_Step ==
    \A j \in Passes :
        idx'[j] # idx[j] =>
            LET i   == idx'[j]
                d   == Df(j)
                row == Row(d, i)
                n   == Len(results[j])
                armed == waiting_for_ma20_dip[j] /\ i >= 1
                         /\ ~ManualSkips(row, jobs[j].manual)
            IN  /\ i = idx[j] + 1
                /\ (armed /\ row.close < row.ma20) =>
                      IF TradeFrom(d, i, Converted(params))
                      THEN /\ Len(results'[j]) = n + 1
                           /\ results'[j][n + 1].trigger_date = row.date
                           /\ waiting_for_ma20_dip'[j]
                      ELSE /\ results'[j] = results[j]
                           /\ ~waiting_for_ma20_dip'[j]
                /\ (armed /\ row.close >= row.ma20) =>
                      /\ results'[j] = results[j]
                      /\ waiting_for_ma20_dip'[j]

C26_DipBarIsTested == [][C26_Step]_vars

\* Two records of one pass, the second triggered on the first bar after the
\* first record's trigger bar that closed under its MA20.
C26_Witness ==
    \E j \in Passes :
        /\ Len(results[j]) >= 2
        /\ LET t1 == TrigIdx(j, results[j][1])
               t2 == TrigIdx(j, results[j][2])
           IN  /\ Row(Df(j), t2).close < Row(Df(j), t2).ma20
               /\ \A i \in (t1 + 1)..(t2 - 1) :
                     Row(Df(j), i).close >= Row(Df(j), i).ma20

\* C27: a bar that reaches the trigger test and passes it, but whose entry
\* search finds no accepted entry or whose entry never exits, adds no
\* record: the collected records are unchanged, the gate is clear as it was
\* when the trigger test ran, and the pass goes on scanning with the next
\* bar.
C27_Step ==
    \A j \in Passes :
        idx'[j] # idx[j] =>
            LET i   == idx'[j]
                d   == Df(j)
                row == Row(d, i)
                tested == /\ i >= 1
                          /\ ~ManualSkips(row, jobs[j].manual)
                          /\ ~waiting_for_ma20_dip[j] \/ row.close < row.ma20
            IN  (tested /\ IsTrigger(d, i, Converted(params))
                        /\ ~TradeFrom(d, i, Converted(params))) =>
                    /\ results' = results
                    /\ all_results' = all_results
                    /\ ~waiting_for_ma20_dip'[j]
                    /\ ~waiting_for_ma20_dip[j]
                           => waiting_for_ma20_dip' = waiting_for_ma20_dip
                    /\ last_exit_idx' = last_exit_idx
                    /\ idx'[j] = idx[j] + 1
                    /\ pc'[j] = "scan"

C27_NoTradeLeavesNoTrace == [][C27_Step]_vars

\* A pass without records that went on scanning, its gate clear, past a
\* trigger bar that gave no trade.
C27_Witness ==
    \E j \in Passes :
        /\ pc[j] = "scan"
        /\ results[j] = <<>>
        /\ ~waiting_for_ma20_dip[j]
        /\ \E i \in 1..(idx[j] - 1) :
              /\ IsTrigger(Df(j), i, Converted(params))
              /\ ~TradeFrom(Df(j), i, Converted(params))

\* A pass with a record, and after its trigger bar a bar that cleared the
\* gate and passed the trigger test without giving a trade.
C27_AfterRecord ==
    \E j \in Passes :
        /\ results[j] # <<>>
        /\ \E i \in (TrigIdx(j, results[j][1]) + 1)..idx[j] :
              /\ Row(Df(j), i).close < Row(Df(j), i).ma20
              /\ IsTrigger(Df(j), i, Converted(params))
              /\ ~TradeFrom(Df(j), i, Converted(params))

----------------------------------------------------------------------------
(* Claims about the entry price and the record ids *)

WellFormed(r) ==
    /\ r.low <= r.open /\ r.open <= r.high
    /\ r.low <= r.close /\ r.close <= r.high

\* C28: on a well-formed entry bar the entry price is the open when the bar
\* opened under its MA5 and the MA5 when the bar's range holds it, never the
\* fallback; so it lies between the entry bar's MA10 and MA5.
C28_NoFallbackWhenWellFormed ==
    \A j \in Passes : \A r \in Recs(j) :
        LET er == Row(Df(j), EntryIdx(j, r))
        IN  WellFormed(er) =>
                /\ \/ er.open < er.ma5 /\ r.entry_price = er.open
                   \/ /\ er.open >= er.ma5
                      /\ er.low <= er.ma5 /\ er.ma5 <= er.high
                      /\ r.entry_price = er.ma5
                /\ er.ma10 <= r.entry_price
                /\ r.entry_price <= er.ma5

\* A record entered at MA5 on a well-formed bar that opened above its MA5
\* and traded down through it.
C28_Witness ==
    \E j \in Passes : \E r \in Recs(j) :
        LET er == Row(Df(j), EntryIdx(j, r))
        IN  /\ WellFormed(er)
            /\ er.open > er.ma5
            /\ er.low < er.ma5
            /\ r.entry_price = er.ma5

\* A record entered at the open of a well-formed bar that opened under its
\* MA5 and above its MA10.
C28_GapDownSeen ==
    \E j \in Passes : \E r \in Recs(j) :
        LET er == Row(Df(j), EntryIdx(j, r))
        IN  /\ WellFormed(er)
            /\ er.ma10 < er.open /\ er.open < er.ma5
            /\ r.entry_price = er.open

\* A record entered by the fallback branch: the bar's high is under its open.
C28_FallbackSeen ==
    \E j \in Passes : \E r \in Recs(j) :
        LET er == Row(Df(j), EntryIdx(j, r))
        IN  /\ ~WellFormed(er)
            /\ er.open >= er.ma5
            /\ ~(er.low <= er.ma5 /\ er.ma5 <= er.high)
            /\ r.entry_price = er.open

\* C29: entry_id (and exit_id, built from the same code and number) is
\* unique across the trade-record table of a batch, in normal and in manual
\* mode: no two records carry the same code and number.
C29_IdsUnique ==
    main_pc = "collected" =>
        \A a, b \in 1..Len(df_results) :
            a # b =>
                <<df_results[a].code, df_results[a].entry_id>>
                    # <<df_results[b].code, df_results[b].entry_id>>

\* The same for the batches of normal mode only.
C29_IdsUniqueNormalMode ==
    (main_pc = "collected" /\ ~ManualMode) =>
        \A a, b \in 1..Len(df_results) :
            a # b =>
                <<df_results[a].code, df_results[a].entry_id>>
                    # <<df_results[b].code, df_results[b].entry_id>>

----------------------------------------------------------------------------
(* Claims about the Total row of the daily summary (specification SpecHeld) *)

TotalRow(rows) == rows[CHOOSE n \in 1..Len(rows) : rows[n].kind = "Total"]

\* The Total row counts every record once as bought and once as sold.
TotalsBalance(rows, df) ==
    /\ TotalRow(rows).bought = Len(df)
    /\ TotalRow(rows).sold = Len(df)

\* C30: in the daily summary the Total row's number of stocks sold equals
\* its number of stocks bought and both equal the number of trade records,
\* also when a record exits on a date on which no trade was entered; in
\* either implementation.
C30_TotalsBalance ==
    apc = "summary_done" =>
        /\ TotalsBalance(daily_summary_full(df_results), df_results)
        /\ TotalsBalance(summary, df_results)

\* The Total row always counts every record as bought.
C30_BoughtIsRecords ==
    apc = "summary_done" => TotalRow(summary).bought = Len(df_results)

\* The implementation that reindexes to the full calendar balances.
C30_FullCalendarVariant ==
    apc = "summary_done" =>
        TotalsBalance(daily_summary_full(df_results), df_results)

====
